---- MODULE Spec2Model ----
(***************************************************************************)
(* Model of gym-log (src/app/main.py): a FastAPI application over a SQLite *)
(* store.  The store is the variable db (one field per table), every       *)
(* browser is a client with a signed session cookie, and every request     *)
(* handler is split at its separate store connections: a handler step is   *)
(* an operator from (store, cookie, request locals) to the same plus the   *)
(* HTTP response, and every action is one such step; a handler's reads of  *)
(* the clock are steps too, or end its first step.  Spec, SpecReg,         *)
(* SpecClaim, SpecLog, SpecOwn, SpecHome and SpecTpl interleave            *)
(* the steps of the requests of two browsers; SpecSeq, SpecSession,        *)
(* SpecAdmin and SpecRef have one browser, whose requests follow one       *)
(* another; SpecStats renders the page on stores of given set entries.     *)
(***************************************************************************)
EXTENDS Integers, Sequences, FiniteSets, TLC

VARIABLES db, cookie, req, last, today

vars == <<db, cookie, req, last, today>>

(* ------------------------------ bounds --------------------------------- *)
MaxSessions == 2
MaxSets == 2
MaxDay == 2
MaxLegacy == 1
MaxStatEntries == 3
MaxExerciseId == 15

NULL == 0

(* float("nan"), which the weight field of POST /log accepts: a value apart
   from every number *)
NaN == -999999

Clients == {1, 2}
SeqClients == {1}
(* the browser that requests the page and the one that writes meanwhile *)
PageClients == {1}
OtherClients == {2}

(* inputs of the forms *)
RawEmails == {"a@x.io", " A@x.io ", "b@x.io"}
RaceEmails == {"a@x.io", " A@x.io "}
Passwords == {"12345", "123456"}

(* the sequential session runs use two accounts with acceptable passwords *)
SeqEmails == {"a@x.io", "b@x.io"}

SeqPasswords == {"123456"}

(* and posts one accepted and one rejected (weight, reps) pair *)
SeqWeightReps == {<<2000, 200>>, <<2001, 1>>}
TemplateIds == {2, 9}
(* SpecClaim and SpecHome post one accepted set of the Pull template *)
ClaimTemplateIds == {2}
ClaimWeightReps == {<<2000, 200>>}
HomeWeightReps == {<<2000, 200>>}
(* SpecOwn: a set that is stored and one whose INSERT fails *)
OwnWeightReps == {<<2000, 200>>, <<NaN, 1>>}
WorkoutNames == {"Pull"}
LogExercises == {"Row"}
(* weight and reps of POST /log: both ends of both ranges, inside and outside,
   and the weight that is not a number *)
WeightReps ==
    {<<0, 1>>, <<2000, 200>>, <<-1, 1>>, <<2001, 1>>, <<0, 0>>, <<0, 201>>, <<NaN, 1>>}
RawExerciseNames == {"Row", " Plank ", "  "}
(* a seeded exercise of the Pull template and every id a new exercise gets *)
ExerciseIds == {6} \cup 14..MaxExerciseId
(* every exercise of the Pull template and every id a new exercise gets *)
TplExerciseIds == {5, 6, 7, 8} \cup 14..MaxExerciseId
HomeTemplates == {NULL, 2}
AdminTemplateIds == {2, 9}
(* the sets the two accounts have logged: exercise, weight, reps *)
StatSets == {<<"Row", 100, 5>>, <<"Row", 100, 8>>, <<"Row", 90, 10>>, <<"Squat", 100, 5>>}
StatNames == {"Row", "Squat", "Plank"}
EditFlags == {0, 1}

Max(S) == CHOOSE x \in S : \A y \in S : y <= x

(* a < b on floats: false as soon as one side is not a number *)
Less(a, b) == a # NaN /\ b # NaN /\ a < b

(* str.strip().lower() and str.strip() on the form inputs *)
NormEmail(raw) ==
    CASE raw = " A@x.io " -> "a@x.io"
      [] OTHER -> raw

Strip(raw) ==
    CASE raw = " Plank " -> "Plank"
      [] raw = "  " -> ""
      [] OTHER -> raw

(* ------------------------- password hashing ---------------------------- *)
Salts == {"salt"}

pbkdf2_hmac(password, salt) == <<salt, password>>

hash_password(password, salt) == [salt |-> salt, dk |-> pbkdf2_hmac(password, salt)]

verify_password(password, stored) == pbkdf2_hmac(password, stored.salt) = stored.dk

(* ------------------------------ the store ------------------------------ *)
WORKOUTS ==
    << [name |-> "Push",
        ex |-> <<"Bench Press", "Incline DB Press", "Overhead Press", "Tricep Pushdown">>],
       [name |-> "Pull",
        ex |-> <<"Lat Pulldown", "Row", "Face Pull", "Bicep Curl">>],
       [name |-> "Legs",
        ex |-> <<"Squat", "RDL", "Leg Press", "Leg Curl", "Calf Raise">>] >>

(* rows of workout_templates: id = position, value = name; the app never
   writes this table after the seed *)
workout_templates == [t \in DOMAIN WORKOUTS |-> WORKOUTS[t].name]

RECURSIVE SeedOffset(_)
SeedOffset(t) == IF t = 1 THEN 0 ELSE SeedOffset(t - 1) + Len(WORKOUTS[t - 1].ex)

(* rows of exercises: the names of WORKOUTS are all different, so every
   INSERT OR IGNORE of the seed inserts and takes the next id *)
SeedExercises ==
    UNION {{[id |-> SeedOffset(t) + i, name |-> WORKOUTS[t].ex[i]] :
                i \in DOMAIN WORKOUTS[t].ex} : t \in DOMAIN WORKOUTS}

(* sqlite_sequence holds, for the AUTOINCREMENT table exercises, the highest
   id handed out so far *)
seed_templates_if_empty ==
    [exercises |-> SeedExercises,
     sqlite_sequence |-> [exercises |-> Cardinality(SeedExercises)],
     template_exercises |->
        UNION {{[template_id |-> t, exercise_id |-> SeedOffset(t) + i, order_index |-> i - 1] :
                    i \in DOMAIN WORKOUTS[t].ex} : t \in DOMAIN WORKOUTS}]

(* rows written before accounts existed: user_id IS NULL; the store these
   come from has at most one open session per template and day *)
LegacySessions ==
    {[user_id |-> NULL, template_id |-> 2, day |-> 1, workout_name |-> "Pull",
      ended_at |-> e] : e \in {NULL, 1}}

LegacySets ==
    {[user_id |-> NULL, session_id |-> s, day |-> 1, workout |-> "Pull",
      exercise |-> "Row", weight |-> 2000, reps |-> 1] : s \in {NULL, 1}}

SeqsUpTo(S, n) == UNION {[1..k -> S] : k \in 0..n}

init_db ==
    UNION {{[users |-> <<>>,
             exercises |-> seed_templates_if_empty.exercises,
             sqlite_sequence |-> seed_templates_if_empty.sqlite_sequence,
             template_exercises |-> seed_templates_if_empty.template_exercises,
             workout_sessions |-> ls,
             set_entries |-> le] :
                le \in {s \in SeqsUpTo(LegacySets, MaxLegacy) :
                    \A i \in DOMAIN s : s[i].session_id = NULL \/ s[i].session_id <= Len(ls)}} :
           ls \in {s \in SeqsUpTo(LegacySessions, MaxLegacy) :
                    \A i, j \in DOMAIN s :
                        (i < j /\ s[i].template_id = s[j].template_id /\ s[i].day = s[j].day)
                            => (s[i].ended_at # NULL \/ s[j].ended_at # NULL)}}

(* ------------------------- users / identities -------------------------- *)
get_current_user_id(ck) == ck

get_user_by_id(d, user_id) ==
    IF user_id \in DOMAIN d.users THEN user_id ELSE NULL

get_user_by_email(d, email) ==
    LET hit == {i \in DOMAIN d.users : d.users[i].email = email}
    IN IF hit = {} THEN NULL ELSE CHOOSE i \in hit : TRUE

(* mutant: both UPDATEs without WHERE user_id IS NULL *)
claim_legacy_rows_every_row(d, user_id) ==
    [d EXCEPT
        !.set_entries = [i \in DOMAIN d.set_entries |->
            [d.set_entries[i] EXCEPT !.user_id = user_id]],
        !.workout_sessions = [i \in DOMAIN d.workout_sessions |->
            [d.workout_sessions[i] EXCEPT !.user_id = user_id]]]

(* mutant: the UPDATE of set_entries also clears session_id *)
claim_legacy_rows_detach_sets(d, user_id) ==
    [d EXCEPT
        !.set_entries = [i \in DOMAIN d.set_entries |->
            IF d.set_entries[i].user_id = NULL
            THEN [d.set_entries[i] EXCEPT !.user_id = user_id, !.session_id = NULL]
            ELSE d.set_entries[i]],
        !.workout_sessions = [i \in DOMAIN d.workout_sessions |->
            IF d.workout_sessions[i].user_id = NULL
            THEN [d.workout_sessions[i] EXCEPT !.user_id = user_id]
            ELSE d.workout_sessions[i]]]

claim_legacy_rows(d, user_id) ==
    [d EXCEPT
        !.set_entries = [i \in DOMAIN d.set_entries |->
            IF d.set_entries[i].user_id = NULL
            THEN [d.set_entries[i] EXCEPT !.user_id = user_id]
            ELSE d.set_entries[i]],
        !.workout_sessions = [i \in DOMAIN d.workout_sessions |->
            IF d.workout_sessions[i].user_id = NULL
            THEN [d.workout_sessions[i] EXCEPT !.user_id = user_id]
            ELSE d.workout_sessions[i]]]

(* 0: access granted, otherwise the status of the HTTPException *)
require_user_id(ck) == IF get_current_user_id(ck) = NULL THEN 401 ELSE 0

(* mutant: the is_admin test left out *)
require_admin_any_user(d, ck) ==
    IF require_user_id(ck) # 0 THEN 401
    ELSE IF get_user_by_id(d, ck) = NULL THEN 403
    ELSE 0

require_admin(d, ck) ==
    IF require_user_id(ck) # 0 THEN 401
    ELSE IF get_user_by_id(d, ck) = NULL \/ d.users[ck].is_admin # 1 THEN 403
    ELSE 0

(* mutant: the inner SELECT without user_id=? *)
fetch_last_rows_all_users(d, user_id, exercise_names) ==
    LET se == d.set_entries
        grp(e) == {i \in DOMAIN se : se[i].exercise = e}
        lastq == {[exercise |-> e, max_id |-> Max(grp(e))] :
                    e \in {x \in exercise_names : grp(x) # {}}}
    IN {i \in DOMAIN se :
            se[i].user_id = user_id /\ \E l \in lastq : l.max_id = i}

(* --------------------------- stat aggregator --------------------------- *)
(* ids of the set_entries rows the SQL of fetch_last_for_exercises returns *)
fetch_last_rows(d, user_id, exercise_names) ==
    LET se == d.set_entries
        grp(e) == {i \in DOMAIN se : se[i].user_id = user_id /\ se[i].exercise = e}
        lastq == {[exercise |-> e, max_id |-> Max(grp(e))] :
                    e \in {x \in exercise_names : grp(x) # {}}}
    IN {i \in DOMAIN se :
            se[i].user_id = user_id /\ \E l \in lastq : l.max_id = i}

(* mutant: the reps maximum taken per exercise instead of per exercise and
   weight *)
fetch_pr_rows_reps_per_exercise(d, user_id, exercise_names) ==
    LET se == d.set_entries
        sel == {i \in DOMAIN se : se[i].user_id = user_id /\ se[i].exercise \in exercise_names}
        mw == {[exercise |-> se[i].exercise,
                max_weight |-> Max({se[j].weight : j \in {k \in sel : se[k].exercise = se[i].exercise}})] :
                    i \in sel}
        mr == {[exercise |-> se[i].exercise,
                max_reps |-> Max({se[j].reps : j \in {k \in sel :
                    se[k].exercise = se[i].exercise}})] :
                    i \in sel}
        tie == {[exercise |-> se[i].exercise, weight |-> se[i].weight, reps |-> se[i].reps,
                 max_id |-> Max({k \in sel : se[k].exercise = se[i].exercise
                                    /\ se[k].weight = se[i].weight /\ se[k].reps = se[i].reps})] :
                    i \in sel}
    IN {i \in DOMAIN se :
            /\ se[i].user_id = user_id
            /\ \E m \in mw : m.exercise = se[i].exercise /\ m.max_weight = se[i].weight
            /\ \E r \in mr : r.exercise = se[i].exercise /\ r.max_reps = se[i].reps
            /\ \E t \in tie : t.exercise = se[i].exercise /\ t.weight = se[i].weight
                                /\ t.reps = se[i].reps /\ t.max_id = i}

(* mutant: the three inner SELECTs without user_id=? *)
fetch_pr_rows_all_users(d, user_id, exercise_names) ==
    LET se == d.set_entries
        sel == {i \in DOMAIN se : se[i].exercise \in exercise_names}
        mw == {[exercise |-> se[i].exercise,
                max_weight |-> Max({se[j].weight : j \in {k \in sel : se[k].exercise = se[i].exercise}})] :
                    i \in sel}
        mr == {[exercise |-> se[i].exercise, weight |-> se[i].weight,
                max_reps |-> Max({se[j].reps : j \in {k \in sel :
                    se[k].exercise = se[i].exercise /\ se[k].weight = se[i].weight}})] :
                    i \in sel}
        tie == {[exercise |-> se[i].exercise, weight |-> se[i].weight, reps |-> se[i].reps,
                 max_id |-> Max({k \in sel : se[k].exercise = se[i].exercise
                                    /\ se[k].weight = se[i].weight /\ se[k].reps = se[i].reps})] :
                    i \in sel}
    IN {i \in DOMAIN se :
            /\ se[i].user_id = user_id
            /\ \E m \in mw : m.exercise = se[i].exercise /\ m.max_weight = se[i].weight
            /\ \E r \in mr : r.exercise = se[i].exercise /\ r.weight = se[i].weight
                                /\ r.max_reps = se[i].reps
            /\ \E t \in tie : t.exercise = se[i].exercise /\ t.weight = se[i].weight
                                /\ t.reps = se[i].reps /\ t.max_id = i}

(* ids of the set_entries rows the SQL of fetch_pr_for_exercises returns *)
fetch_pr_rows(d, user_id, exercise_names) ==
    LET se == d.set_entries
        sel == {i \in DOMAIN se : se[i].user_id = user_id /\ se[i].exercise \in exercise_names}
        mw == {[exercise |-> se[i].exercise,
                max_weight |-> Max({se[j].weight : j \in {k \in sel : se[k].exercise = se[i].exercise}})] :
                    i \in sel}
        mr == {[exercise |-> se[i].exercise, weight |-> se[i].weight,
                max_reps |-> Max({se[j].reps : j \in {k \in sel :
                    se[k].exercise = se[i].exercise /\ se[k].weight = se[i].weight}})] :
                    i \in sel}
        tie == {[exercise |-> se[i].exercise, weight |-> se[i].weight, reps |-> se[i].reps,
                 max_id |-> Max({k \in sel : se[k].exercise = se[i].exercise
                                    /\ se[k].weight = se[i].weight /\ se[k].reps = se[i].reps})] :
                    i \in sel}
    IN {i \in DOMAIN se :
            /\ se[i].user_id = user_id
            /\ \E m \in mw : m.exercise = se[i].exercise /\ m.max_weight = se[i].weight
            /\ \E r \in mr : r.exercise = se[i].exercise /\ r.weight = se[i].weight
                                /\ r.max_reps = se[i].reps
            /\ \E t \in tie : t.exercise = se[i].exercise /\ t.weight = se[i].weight
                                /\ t.reps = se[i].reps /\ t.max_id = i}

(* {r["exercise"]: dict(r) for r in rows}: when several rows name the same
   exercise the row kept is the last one of the result, here any of them *)
RowsToDict(d, rows) ==
    [e \in {d.set_entries[i].exercise : i \in rows} |->
        LET i == CHOOSE k \in rows : d.set_entries[k].exercise = e
        IN [exercise |-> e, weight |-> d.set_entries[i].weight,
            reps |-> d.set_entries[i].reps, day |-> d.set_entries[i].day]]

EmptyDict == [e \in {} |-> NULL]

fetch_last_for_exercises(d, user_id, exercise_names) ==
    IF exercise_names = {} THEN EmptyDict
    ELSE RowsToDict(d, fetch_last_rows(d, user_id, exercise_names))

fetch_pr_for_exercises(d, user_id, exercise_names) ==
    IF exercise_names = {} THEN EmptyDict
    ELSE RowsToDict(d, fetch_pr_rows(d, user_id, exercise_names))

(* mutant: WHERE without user_id=? *)
get_active_session_id_any_user(d, user_id, template_id, day) ==
    LET open == {i \in DOMAIN d.workout_sessions :
                    /\ d.workout_sessions[i].template_id = template_id
                    /\ d.workout_sessions[i].day = day
                    /\ d.workout_sessions[i].ended_at = NULL}
    IN IF open = {} THEN NULL ELSE Max(open)

(* mutant: WHERE without ended_at IS NULL *)
get_active_session_id_ended_too(d, user_id, template_id, day) ==
    LET open == {i \in DOMAIN d.workout_sessions :
                    /\ d.workout_sessions[i].user_id = user_id
                    /\ d.workout_sessions[i].template_id = template_id
                    /\ d.workout_sessions[i].day = day}
    IN IF open = {} THEN NULL ELSE Max(open)

(* mutant: WHERE without day=? *)
get_active_session_id_any_day(d, user_id, template_id, day) ==
    LET open == {i \in DOMAIN d.workout_sessions :
                    /\ d.workout_sessions[i].user_id = user_id
                    /\ d.workout_sessions[i].template_id = template_id
                    /\ d.workout_sessions[i].ended_at = NULL}
    IN IF open = {} THEN NULL ELSE Max(open)

(* ------------------------- session lifecycle --------------------------- *)
get_active_session_id(d, user_id, template_id, day) ==
    LET open == {i \in DOMAIN d.workout_sessions :
                    /\ d.workout_sessions[i].user_id = user_id
                    /\ d.workout_sessions[i].template_id = template_id
                    /\ d.workout_sessions[i].day = day
                    /\ d.workout_sessions[i].ended_at = NULL}
    IN IF open = {} THEN NULL ELSE Max(open)

(* the names of the exercises joined to the associations of the template *)
get_exercises_for_template(d, tid) ==
    {e.name : e \in {x \in d.exercises :
        \E te \in d.template_exercises : te.template_id = tid /\ te.exercise_id = x.id}}

(* get_templates()[0]["id"]: the first template in name order *)
FirstTemplateByName ==
    CHOOSE t \in DOMAIN workout_templates : workout_templates[t] = "Legs"

(* ------------------------- requests in flight -------------------------- *)
(* locals of a handler between two store connections; pc names the next one *)
Idle ==
    [op |-> "none", pc |-> "idle", uid |-> NULL, day |-> NULL, template_id |-> NULL,
     workout |-> "", exercise |-> "", weight |-> 0, reps |-> 0, session_id |-> NULL,
     email |-> "", password |-> "", is_admin |-> 0, now |-> NULL, exercise_id |-> NULL,
     edit |-> FALSE, names |-> {}, lastd |-> EmptyDict, prd |-> EmptyDict]

(* the response of the last finished request: handler, HTTP status, the
   source line that produced it, the session id the handler worked on and,
   for GET /, what is handed to the page: the name of the selected template,
   the edit mode, the last and pr mappings and the ids of the session's sets *)
NoBody ==
    [selected_template |-> "", edit |-> FALSE, last |-> EmptyDict, pr |-> EmptyDict,
     session_sets |-> {}]

NoResp == [op |-> "none", status |-> 0, line |-> 0, ret |-> NULL, body |-> NoBody]

Resp(op, status, line, ret) ==
    [op |-> op, status |-> status, line |-> line, ret |-> ret, body |-> NoBody]

(* result of a handler step *)
K(d, ck, rq, out) == [db |-> d, cookie |-> ck, rq |-> rq, out |-> out]

(* mutant: the guardrail with weight >= 0 and reps >= 0 only *)
log_set_no_upper_limit(d, ck, day, template_id, workout, exercise, weight, reps) ==
    IF require_user_id(ck) # 0
    THEN K(d, ck, Idle, Resp("log", 401, 196, NULL))
    ELSE IF Less(weight, 0) \/ reps < 0
    THEN K(d, ck, Idle, Resp("log", 303, 536, NULL))
    ELSE K(d, ck, [Idle EXCEPT !.op = "log", !.pc = "ensure_lookup", !.uid = ck, !.day = day,
                               !.template_id = template_id, !.workout = workout,
                               !.exercise = exercise, !.weight = weight, !.reps = reps],
           NoResp)

(* POST /log up to its first store connection: the identity, the day read
   from the clock and the guardrails *)
log_set(d, ck, day, template_id, workout, exercise, weight, reps) ==
    IF require_user_id(ck) # 0
    THEN K(d, ck, Idle, Resp("log", 401, 196, NULL))
    ELSE IF Less(weight, 0) \/ Less(2000, weight) \/ reps < 1 \/ reps > 200
    THEN K(d, ck, Idle, Resp("log", 303, 536, NULL))
    ELSE K(d, ck, [Idle EXCEPT !.op = "log", !.pc = "ensure_lookup", !.uid = ck, !.day = day,
                               !.template_id = template_id, !.workout = workout,
                               !.exercise = exercise, !.weight = weight, !.reps = reps],
           NoResp)

(* the lookup of ensure_active_session, for the day the handler read *)
ensure_active_session_lookup(d, ck, rq) ==
    LET existing == get_active_session_id(d, rq.uid, rq.template_id, rq.day)
    IN IF existing # NULL
       THEN K(d, ck, [rq EXCEPT !.pc = "insert_set", !.session_id = existing], NoResp)
       ELSE K(d, ck, [rq EXCEPT !.pc = "insert_session"], NoResp)

(* the INSERT of ensure_active_session; the foreign key on template_id
   makes it fail for a template that does not exist *)
ensure_active_session(d, ck, rq) ==
    IF rq.template_id \notin DOMAIN workout_templates
    THEN K(d, ck, Idle, Resp("log", 500, 548, NULL))
    ELSE LET row == [user_id |-> rq.uid, template_id |-> rq.template_id, day |-> rq.day,
                     workout_name |-> rq.workout, ended_at |-> NULL]
             d2 == [d EXCEPT !.workout_sessions = Append(@, row)]
         IN K(d2, ck, [rq EXCEPT !.pc = "insert_set",
                                 !.session_id = Len(d2.workout_sessions)], NoResp)

(* the INSERT INTO set_entries of log_set; a weight that is not a number is
   bound as NULL, which weight REAL NOT NULL refuses: the handler answers 500
   and the session row of the step before stays *)
insert_set_entry(d, ck, rq) ==
    LET row == [user_id |-> rq.uid, session_id |-> rq.session_id, day |-> rq.day,
                workout |-> rq.workout, exercise |-> rq.exercise,
                weight |-> rq.weight, reps |-> rq.reps]
    IN IF rq.weight = NaN
       THEN K(d, ck, Idle, Resp("log", 500, 548, rq.session_id))
       ELSE K([d EXCEPT !.set_entries = Append(@, row)], ck, Idle,
              Resp("log", 303, 550, rq.session_id))

(* POST /session/done up to its first store connection: the identity and
   the day read from the clock *)
done_session(d, ck, day, template_id) ==
    IF require_user_id(ck) # 0
    THEN K(d, ck, Idle, Resp("done", 401, 196, NULL))
    ELSE K(d, ck, [Idle EXCEPT !.op = "done", !.pc = "close_lookup", !.uid = ck,
                               !.day = day, !.template_id = template_id], NoResp)

(* the lookup of close_active_session, for the day the handler read *)
close_active_session_lookup(d, ck, rq) ==
    LET sid == get_active_session_id(d, rq.uid, rq.template_id, rq.day)
    IN IF sid = NULL
       THEN K(d, ck, Idle, Resp("done", 303, 600, NULL))
       ELSE K(d, ck, [rq EXCEPT !.pc = "close_now", !.session_id = sid], NoResp)

(* close_active_session reads the clock between its two connections *)
close_active_session_now(d, ck, rq, now) ==
    K(d, ck, [rq EXCEPT !.pc = "close_update", !.now = now], NoResp)

(* the UPDATE of close_active_session, with the time read before it *)
close_active_session(d, ck, rq) ==
    K([d EXCEPT !.workout_sessions = [i \in DOMAIN @ |->
            IF i = rq.session_id /\ @[i].user_id = rq.uid
            THEN [@[i] EXCEPT !.ended_at = rq.now] ELSE @[i]]],
      ck, Idle, Resp("done", 303, 600, rq.session_id))

(* mutant: the email compared and stored as typed *)
register_email_as_typed(d, ck, email_raw, password) ==
    LET email == email_raw
    IN IF Len(password) < 6
       THEN K(d, ck, Idle, Resp("register", 303, 444, NULL))
       ELSE IF get_user_by_email(d, email) # NULL
       THEN K(d, ck, Idle, Resp("register", 303, 447, NULL))
       ELSE K(d, ck, [Idle EXCEPT !.op = "register", !.pc = "create_user_count",
                                  !.email = email, !.password = password], NoResp)

(* POST /register up to the duplicate check *)
register(d, ck, email_raw, password) ==
    LET email == NormEmail(email_raw)
    IN IF Len(password) < 6
       THEN K(d, ck, Idle, Resp("register", 303, 444, NULL))
       ELSE IF get_user_by_email(d, email) # NULL
       THEN K(d, ck, Idle, Resp("register", 303, 447, NULL))
       ELSE K(d, ck, [Idle EXCEPT !.op = "register", !.pc = "create_user_count",
                                  !.email = email, !.password = password], NoResp)

(* mutant: is_admin = 1 for every user *)
create_user_count_all_admin(d, ck, rq) ==
    K(d, ck, [rq EXCEPT !.pc = "create_user_insert", !.is_admin = 1], NoResp)

(* create_user: the count of the users rows *)
create_user_count(d, ck, rq) ==
    LET existing_users == Len(d.users)
    IN K(d, ck, [rq EXCEPT !.pc = "create_user_insert",
                           !.is_admin = IF existing_users = 0 THEN 1 ELSE 0], NoResp)

(* create_user: INSERT INTO users; email is UNIQUE *)
create_user_insert(d, ck, rq, salt) ==
    IF get_user_by_email(d, rq.email) # NULL
    THEN K(d, ck, Idle, Resp("register", 500, 220, NULL))
    ELSE LET row == [email |-> rq.email,
                     password_hash |-> hash_password(rq.password, salt),
                     is_admin |-> rq.is_admin]
             d2 == [d EXCEPT !.users = Append(@, row)]
         IN K(d2, ck, [rq EXCEPT !.pc = "claim", !.uid = Len(d2.users)], NoResp)

(* mutant: the password is not verified *)
login_email_only(d, ck, email_raw, password) ==
    LET email == NormEmail(email_raw)
        user == get_user_by_email(d, email)
    IN IF user = NULL
       THEN K(d, ck, Idle, Resp("login", 303, 427, NULL))
       ELSE K(d, ck, [Idle EXCEPT !.op = "login", !.pc = "claim", !.uid = user], NoResp)

(* POST /login up to the credential check *)
login(d, ck, email_raw, password) ==
    LET email == NormEmail(email_raw)
        user == get_user_by_email(d, email)
    IN IF user = NULL \/ ~verify_password(password, d.users[user].password_hash)
       THEN K(d, ck, Idle, Resp("login", 303, 427, NULL))
       ELSE K(d, ck, [Idle EXCEPT !.op = "login", !.pc = "claim", !.uid = user], NoResp)

(* the tail of login and register: set the identity, claim legacy rows *)
set_identity_and_claim(d, ck, rq) ==
    K(claim_legacy_rows(d, rq.uid), rq.uid, Idle,
      Resp(rq.op, 303, IF rq.op = "login" THEN 431 ELSE 452, NULL))

logout(d, ck) == K(d, NULL, Idle, Resp("logout", 303, 458, NULL))

(* POST /template/add_exercise up to its write: require_admin reads the
   users row on a connection of its own, then the name is trimmed *)
add_exercise(d, ck, template_id, exercise_name) ==
    LET name == Strip(exercise_name)
        auth == require_admin(d, ck)
    IN IF auth # 0
       THEN K(d, ck, Idle, Resp("add_exercise", auth, IF auth = 401 THEN 196 ELSE 243, NULL))
       ELSE IF name = ""
       THEN K(d, ck, Idle, Resp("add_exercise", 303, 559, NULL))
       ELSE K(d, ck, [Idle EXCEPT !.op = "add_exercise", !.pc = "add_exercise_insert",
                                  !.uid = ck, !.template_id = template_id,
                                  !.exercise = name], NoResp)

(* mutant: next_idx is the number of associations of the template *)
add_exercise_insert_index_by_count(d, ck, rq) ==
    LET name == rq.exercise
        template_id == rq.template_id
        new_id == d.sqlite_sequence.exercises + 1
        exs == IF \E e \in d.exercises : e.name = name THEN d.exercises
               ELSE d.exercises \cup {[id |-> new_id, name |-> name]}
        ex_id == (CHOOSE e \in exs : e.name = name).id
        mine == {te \in d.template_exercises : te.template_id = template_id}
        next_idx == Cardinality(mine)
        present == \E te \in mine : te.exercise_id = ex_id
        d2 == [d EXCEPT !.exercises = exs, !.sqlite_sequence.exercises = new_id]
    IN IF present
       THEN K(d2, ck, Idle, Resp("add_exercise", 303, 578, NULL))
       ELSE IF template_id \notin DOMAIN workout_templates
       THEN K(d, ck, Idle, Resp("add_exercise", 500, 571, NULL))
       ELSE K([d2 EXCEPT !.template_exercises = @ \cup
                            {[template_id |-> template_id, exercise_id |-> ex_id,
                              order_index |-> next_idx]}],
              ck, Idle, Resp("add_exercise", 303, 578, NULL))

(* the writes of add_exercise, one transaction.  exercises.id is
   AUTOINCREMENT: the INSERT OR IGNORE INTO exercises takes the next id of
   sqlite_sequence also when the name is already there and the row is
   ignored, so a committed request skips that id; the foreign key on
   template_id makes the second INSERT fail for a template that does not
   exist, and the rollback gives the id back *)
add_exercise_insert(d, ck, rq) ==
    LET name == rq.exercise
        template_id == rq.template_id
        new_id == d.sqlite_sequence.exercises + 1
        exs == IF \E e \in d.exercises : e.name = name THEN d.exercises
               ELSE d.exercises \cup {[id |-> new_id, name |-> name]}
        ex_id == (CHOOSE e \in exs : e.name = name).id
        mine == {te \in d.template_exercises : te.template_id = template_id}
        next_idx == (IF mine = {} THEN -1 ELSE Max({te.order_index : te \in mine})) + 1
        present == \E te \in mine : te.exercise_id = ex_id
        d2 == [d EXCEPT !.exercises = exs, !.sqlite_sequence.exercises = new_id]
    IN IF present
       THEN K(d2, ck, Idle, Resp("add_exercise", 303, 578, NULL))
       ELSE IF template_id \notin DOMAIN workout_templates
       THEN K(d, ck, Idle, Resp("add_exercise", 500, 571, NULL))
       ELSE K([d2 EXCEPT !.template_exercises = @ \cup
                            {[template_id |-> template_id, exercise_id |-> ex_id,
                              order_index |-> next_idx]}],
              ck, Idle, Resp("add_exercise", 303, 578, NULL))

(* POST /template/remove_exercise up to its write: require_admin *)
remove_exercise(d, ck, template_id, exercise_id) ==
    LET auth == require_admin(d, ck)
    IN IF auth # 0
       THEN K(d, ck, Idle, Resp("remove_exercise", auth, IF auth = 401 THEN 196 ELSE 243, NULL))
       ELSE K(d, ck, [Idle EXCEPT !.op = "remove_exercise", !.pc = "remove_exercise_delete",
                                  !.uid = ck, !.template_id = template_id,
                                  !.exercise_id = exercise_id], NoResp)

(* the DELETE of remove_exercise *)
remove_exercise_delete(d, ck, rq) ==
    K([d EXCEPT !.template_exercises =
            {te \in @ : ~(te.template_id = rq.template_id /\ te.exercise_id = rq.exercise_id)}],
      ck, Idle, Resp("remove_exercise", 303, 592, NULL))

(* GET / up to its first store connection, the users row of the identity *)
home(d, ck, t, edit) ==
    LET uid == get_current_user_id(ck)
    IN IF uid = NULL
       THEN K(d, ck, Idle, Resp("home", 303, 466, NULL))
       ELSE IF get_user_by_id(d, uid) = NULL
       THEN K(d, NULL, Idle, Resp("home", 303, 471, NULL))
       ELSE K(d, ck, [Idle EXCEPT !.op = "home", !.pc = "get_templates", !.uid = uid,
                                  !.template_id = t,
                                  !.edit = (edit = 1 /\ d.users[uid].is_admin = 1)],
              NoResp)

(* get_templates: without t the page selects the first template by name *)
home_get_templates(d, ck, rq) ==
    K(d, ck, [rq EXCEPT !.pc = "get_template_by_id",
                        !.template_id = IF rq.template_id = NULL
                                        THEN FirstTemplateByName ELSE rq.template_id],
      NoResp)

(* get_template_by_id: none for an id that is not in workout_templates *)
home_get_template_by_id(d, ck, rq) ==
    K(d, ck, [rq EXCEPT !.pc = "get_exercises_for_template",
                        !.workout = IF rq.template_id \in DOMAIN workout_templates
                                    THEN workout_templates[rq.template_id] ELSE ""],
      NoResp)

home_get_exercises_for_template(d, ck, rq) ==
    K(d, ck, [rq EXCEPT !.pc = "fetch_last_for_exercises",
                        !.names = get_exercises_for_template(d, rq.template_id)],
      NoResp)

home_fetch_last_for_exercises(d, ck, rq) ==
    K(d, ck, [rq EXCEPT !.pc = "fetch_pr_for_exercises",
                        !.lastd = fetch_last_for_exercises(d, rq.uid, rq.names)],
      NoResp)

home_fetch_pr_for_exercises(d, ck, rq) ==
    K(d, ck, [rq EXCEPT !.pc = "today",
                        !.prd = fetch_pr_for_exercises(d, rq.uid, rq.names)],
      NoResp)

(* the day is read from the clock after the two lookups *)
home_today(d, ck, rq, day) ==
    K(d, ck, [rq EXCEPT !.pc = "get_active_session_id", !.day = day], NoResp)

(* mutant: the page opens a session when the key has none *)
home_get_active_session_id_ensure(d, ck, rq) ==
    LET day == rq.day
        existing == get_active_session_id(d, rq.uid, rq.template_id, day)
        d2 == IF existing # NULL \/ rq.template_id \notin DOMAIN workout_templates
              THEN d
              ELSE [d EXCEPT !.workout_sessions = Append(@,
                        [user_id |-> rq.uid, template_id |-> rq.template_id, day |-> day,
                         workout_name |-> rq.workout, ended_at |-> NULL])]
    IN K(d2, ck, [rq EXCEPT !.pc = "fetch_sets_for_session",
                            !.session_id =
                                get_active_session_id(d2, rq.uid, rq.template_id, day)],
         NoResp)

(* the open session of the selected template and the day read is looked up *)
home_get_active_session_id(d, ck, rq) ==
    K(d, ck, [rq EXCEPT !.pc = "fetch_sets_for_session",
                        !.session_id =
                            get_active_session_id(d, rq.uid, rq.template_id, rq.day)],
      NoResp)

(* ids of the rows of fetch_sets_for_session; with at most MaxSets rows in
   the table LIMIT 200 cuts nothing off *)
fetch_sets_for_session(d, user_id, session_id) ==
    IF session_id = NULL THEN {}
    ELSE {i \in DOMAIN d.set_entries :
            d.set_entries[i].user_id = user_id /\ d.set_entries[i].session_id = session_id}

(* the last store connection of GET /, then the page; ret is active_session_id *)
home_fetch_sets_for_session(d, ck, rq) ==
    K(d, ck, Idle,
      [Resp("home", 200, 494, rq.session_id)
        EXCEPT !.body = [selected_template |-> rq.workout, edit |-> rq.edit,
                         last |-> rq.lastd, pr |-> rq.prd,
                         session_sets |-> fetch_sets_for_session(d, rq.uid, rq.session_id)]])

(* the next store connection, or clock read, of a request in flight *)
Step(k, now, salt) ==
    CASE k.rq.pc = "ensure_lookup" -> ensure_active_session_lookup(k.db, k.cookie, k.rq)
      [] k.rq.pc = "insert_session" -> ensure_active_session(k.db, k.cookie, k.rq)
      [] k.rq.pc = "insert_set" -> insert_set_entry(k.db, k.cookie, k.rq)
      [] k.rq.pc = "close_lookup" -> close_active_session_lookup(k.db, k.cookie, k.rq)
      [] k.rq.pc = "close_now" -> close_active_session_now(k.db, k.cookie, k.rq, now)
      [] k.rq.pc = "close_update" -> close_active_session(k.db, k.cookie, k.rq)
      [] k.rq.pc = "add_exercise_insert" -> add_exercise_insert(k.db, k.cookie, k.rq)
      [] k.rq.pc = "remove_exercise_delete" -> remove_exercise_delete(k.db, k.cookie, k.rq)
      [] k.rq.pc = "today" -> home_today(k.db, k.cookie, k.rq, now)
      [] k.rq.pc = "create_user_count" -> create_user_count(k.db, k.cookie, k.rq)
      [] k.rq.pc = "create_user_insert" -> create_user_insert(k.db, k.cookie, k.rq, salt)
      [] k.rq.pc = "claim" -> set_identity_and_claim(k.db, k.cookie, k.rq)
      [] k.rq.pc = "get_templates" -> home_get_templates(k.db, k.cookie, k.rq)
      [] k.rq.pc = "get_template_by_id" -> home_get_template_by_id(k.db, k.cookie, k.rq)
      [] k.rq.pc = "get_exercises_for_template" ->
            home_get_exercises_for_template(k.db, k.cookie, k.rq)
      [] k.rq.pc = "fetch_last_for_exercises" ->
            home_fetch_last_for_exercises(k.db, k.cookie, k.rq)
      [] k.rq.pc = "fetch_pr_for_exercises" ->
            home_fetch_pr_for_exercises(k.db, k.cookie, k.rq)
      [] k.rq.pc = "get_active_session_id" ->
            home_get_active_session_id(k.db, k.cookie, k.rq)
      [] k.rq.pc = "fetch_sets_for_session" ->
            home_fetch_sets_for_session(k.db, k.cookie, k.rq)
      [] OTHER -> k

(* ------------------------------ actions -------------------------------- *)
Init ==
    /\ db \in init_db
    /\ cookie = [c \in Clients |-> NULL]
    /\ req = [c \in Clients |-> Idle]
    /\ last = NoResp
    /\ today = 1

InFlight(op) == Cardinality({c \in Clients : req[c].op = op})

(* room for the rows a request that passes its checks will insert *)
HasRoom(k) ==
    k.rq.op = "log" =>
        /\ Len(db.workout_sessions) + InFlight("log") < MaxSessions
        /\ Len(db.set_entries) + InFlight("log") < MaxSets

Apply(c, k) ==
    /\ db' = k.db
    /\ cookie' = [cookie EXCEPT ![c] = k.cookie]
    /\ req' = [req EXCEPT ![c] = k.rq]
    /\ last' = IF k.out.op = "none" THEN last ELSE k.out
    /\ UNCHANGED today

Current(c) == K(db, cookie[c], req[c], NoResp)

LogSet(c, template_id, workout, exercise, weight, reps) ==
    LET k == log_set(db, cookie[c], today, template_id, workout, exercise, weight, reps)
    IN /\ req[c].pc = "idle"
       /\ HasRoom(k)
       /\ Apply(c, k)

EnsureActiveSessionLookup(c) ==
    /\ req[c].pc = "ensure_lookup"
    /\ Apply(c, Step(Current(c), today, "salt"))

EnsureActiveSessionInsert(c) ==
    /\ req[c].pc = "insert_session"
    /\ Apply(c, Step(Current(c), today, "salt"))

InsertSetEntry(c) ==
    /\ req[c].pc = "insert_set"
    /\ Apply(c, Step(Current(c), today, "salt"))

DoneSession(c, template_id) ==
    /\ req[c].pc = "idle"
    /\ Apply(c, done_session(db, cookie[c], today, template_id))

CloseActiveSessionLookup(c) ==
    /\ req[c].pc = "close_lookup"
    /\ Apply(c, Step(Current(c), today, "salt"))

CloseActiveSessionNow(c) ==
    /\ req[c].pc = "close_now"
    /\ Apply(c, Step(Current(c), today, "salt"))

CloseActiveSessionUpdate(c) ==
    /\ req[c].pc = "close_update"
    /\ Apply(c, Step(Current(c), today, "salt"))

Register(c, email, password) ==
    /\ req[c].pc = "idle"
    /\ Apply(c, register(db, cookie[c], email, password))

CreateUserCount(c) ==
    /\ req[c].pc = "create_user_count"
    /\ Apply(c, Step(Current(c), today, "salt"))

CreateUserInsert(c) ==
    /\ req[c].pc = "create_user_insert"
    /\ \E salt \in Salts : Apply(c, Step(Current(c), today, salt))

Login(c, email, password) ==
    /\ req[c].pc = "idle"
    /\ Apply(c, login(db, cookie[c], email, password))

SetIdentityAndClaim(c) ==
    /\ req[c].pc = "claim"
    /\ Apply(c, Step(Current(c), today, "salt"))

Logout(c) ==
    /\ req[c].pc = "idle"
    /\ Apply(c, logout(db, cookie[c]))

(* the ids of exercises stay at or below MaxExerciseId *)
AddExercise(c, template_id, exercise_name) ==
    /\ req[c].pc = "idle"
    /\ db.sqlite_sequence.exercises + InFlight("add_exercise") < MaxExerciseId
    /\ Apply(c, add_exercise(db, cookie[c], template_id, exercise_name))

AddExerciseInsert(c) ==
    /\ req[c].pc = "add_exercise_insert"
    /\ Apply(c, Step(Current(c), today, "salt"))

RemoveExercise(c, template_id, exercise_id) ==
    /\ req[c].pc = "idle"
    /\ Apply(c, remove_exercise(db, cookie[c], template_id, exercise_id))

RemoveExerciseDelete(c) ==
    /\ req[c].pc = "remove_exercise_delete"
    /\ Apply(c, Step(Current(c), today, "salt"))

Home(c, t, edit) ==
    /\ req[c].pc = "idle"
    /\ Apply(c, home(db, cookie[c], t, edit))

HomeGetTemplates(c) ==
    /\ req[c].pc = "get_templates"
    /\ Apply(c, Step(Current(c), today, "salt"))

HomeGetTemplateById(c) ==
    /\ req[c].pc = "get_template_by_id"
    /\ Apply(c, Step(Current(c), today, "salt"))

HomeGetExercisesForTemplate(c) ==
    /\ req[c].pc = "get_exercises_for_template"
    /\ Apply(c, Step(Current(c), today, "salt"))

HomeFetchLastForExercises(c) ==
    /\ req[c].pc = "fetch_last_for_exercises"
    /\ Apply(c, Step(Current(c), today, "salt"))

HomeFetchPrForExercises(c) ==
    /\ req[c].pc = "fetch_pr_for_exercises"
    /\ Apply(c, Step(Current(c), today, "salt"))

HomeToday(c) ==
    /\ req[c].pc = "today"
    /\ Apply(c, Step(Current(c), today, "salt"))

HomeGetActiveSessionId(c) ==
    /\ req[c].pc = "get_active_session_id"
    /\ Apply(c, Step(Current(c), today, "salt"))

HomeFetchSetsForSession(c) ==
    /\ req[c].pc = "fetch_sets_for_session"
    /\ Apply(c, Step(Current(c), today, "salt"))

(* midnight: date.today() moves on *)
Tick ==
    /\ today < MaxDay
    /\ today' = today + 1
    /\ UNCHANGED <<db, cookie, req, last>>

(* Spec: two browsers of one account, their requests interleaved at the
   store connections *)
Next ==
    \/ \E c \in Clients, t \in TemplateIds, wn \in WorkoutNames, e \in LogExercises,
          wr \in WeightReps : LogSet(c, t, wn, e, wr[1], wr[2])
    \/ \E c \in Clients : EnsureActiveSessionLookup(c)
    \/ \E c \in Clients : EnsureActiveSessionInsert(c)
    \/ \E c \in Clients : InsertSetEntry(c)
    \/ \E c \in Clients, t \in TemplateIds : DoneSession(c, t)
    \/ \E c \in Clients : CloseActiveSessionLookup(c)
    \/ \E c \in Clients : CloseActiveSessionNow(c)
    \/ \E c \in Clients : CloseActiveSessionUpdate(c)
    \/ \E c \in Clients, e \in RaceEmails, p \in Passwords : Register(c, e, p)
    \/ \E c \in Clients : CreateUserCount(c)
    \/ \E c \in Clients : CreateUserInsert(c)
    \/ \E c \in Clients, e \in RaceEmails, p \in Passwords : Login(c, e, p)
    \/ \E c \in Clients : SetIdentityAndClaim(c)
    \/ \E c \in Clients : Logout(c)
    \/ Tick

Spec == Init /\ [][Next]_vars

(* ---------------------- one browser, no overlap ------------------------ *)
(* SpecSeq: one browser, which sends a request when it has the response to
   the one before: registrations, logins and logouts run one after another,
   each from its first store connection to its response *)
NextSeq ==
    \/ \E c \in SeqClients, e \in RawEmails, p \in Passwords : Register(c, e, p)
    \/ \E c \in SeqClients : CreateUserCount(c)
    \/ \E c \in SeqClients : CreateUserInsert(c)
    \/ \E c \in SeqClients, e \in RawEmails, p \in Passwords : Login(c, e, p)
    \/ \E c \in SeqClients : SetIdentityAndClaim(c)
    \/ \E c \in SeqClients : Logout(c)

SpecSeq == Init /\ [][NextSeq]_vars

(* ------------------------------ accounts ------------------------------- *)
(* SpecReg: two browsers register, log in and log out with every form input,
   their requests interleaved at the store connections *)
NextReg ==
    \/ \E c \in Clients, e \in RawEmails, p \in Passwords : Register(c, e, p)
    \/ \E c \in Clients : CreateUserCount(c)
    \/ \E c \in Clients : CreateUserInsert(c)
    \/ \E c \in Clients, e \in RawEmails, p \in Passwords : Login(c, e, p)
    \/ \E c \in Clients : SetIdentityAndClaim(c)
    \/ \E c \in Clients : Logout(c)

SpecReg == Init /\ [][NextReg]_vars

(* SpecClaim: two browsers register and log in on a store with rows written
   before accounts existed, and one of them logs sets and closes sessions,
   their requests interleaved at the store connections *)
NextClaim ==
    \/ \E c \in Clients, e \in SeqEmails, p \in SeqPasswords : Register(c, e, p)
    \/ \E c \in Clients : CreateUserCount(c)
    \/ \E c \in Clients : CreateUserInsert(c)
    \/ \E c \in Clients, e \in SeqEmails, p \in SeqPasswords : Login(c, e, p)
    \/ \E c \in Clients : SetIdentityAndClaim(c)
    \/ \E c \in OtherClients, t \in ClaimTemplateIds, wn \in WorkoutNames, e \in LogExercises,
          wr \in ClaimWeightReps : LogSet(c, t, wn, e, wr[1], wr[2])
    \/ \E c \in OtherClients : EnsureActiveSessionLookup(c)
    \/ \E c \in OtherClients : EnsureActiveSessionInsert(c)
    \/ \E c \in OtherClients : InsertSetEntry(c)
    \/ \E c \in OtherClients, t \in ClaimTemplateIds : DoneSession(c, t)
    \/ \E c \in OtherClients : CloseActiveSessionLookup(c)
    \/ \E c \in OtherClients : CloseActiveSessionNow(c)
    \/ \E c \in OtherClients : CloseActiveSessionUpdate(c)

SpecClaim == Init /\ [][NextClaim]_vars

(* ------------------- two browsers with an identity --------------------- *)
(* the accounts a@x.io and b@x.io, registered in this order: the first one is
   the admin *)
StatUsers ==
    << [email |-> "a@x.io", password_hash |-> hash_password("123456", "salt"), is_admin |-> 1],
       [email |-> "b@x.io", password_hash |-> hash_password("123456", "salt"), is_admin |-> 0] >>

(* the stores after these two registrations: the rows written before
   accounts existed belong to the first account *)
Registered ==
    {claim_legacy_rows([d EXCEPT !.users = StatUsers], 1) : d \in init_db}

(* nobody is logged in *)
InitLoggedOut ==
    /\ db \in Registered
    /\ cookie = [c \in Clients |-> NULL]
    /\ req = [c \in Clients |-> Idle]
    /\ last = NoResp
    /\ today = 1

(* the two browsers are logged in, to the same account or to one each *)
InitLoggedIn ==
    /\ db \in Registered
    /\ cookie \in {[c \in Clients |-> 1], [c \in Clients |-> c]}
    /\ req = [c \in Clients |-> Idle]
    /\ last = NoResp
    /\ today = 1

(* SpecSession: one browser logs in to either account, posts sets and closes
   sessions, one request after another; midnight may fall between two store
   connections *)
NextSession ==
    \/ \E c \in SeqClients, e \in SeqEmails, p \in SeqPasswords : Login(c, e, p)
    \/ \E c \in SeqClients : SetIdentityAndClaim(c)
    \/ \E c \in SeqClients : Logout(c)
    \/ \E c \in SeqClients, t \in TemplateIds, wn \in WorkoutNames, e \in LogExercises,
          wr \in SeqWeightReps : LogSet(c, t, wn, e, wr[1], wr[2])
    \/ \E c \in SeqClients : EnsureActiveSessionLookup(c)
    \/ \E c \in SeqClients : EnsureActiveSessionInsert(c)
    \/ \E c \in SeqClients : InsertSetEntry(c)
    \/ \E c \in SeqClients, t \in TemplateIds : DoneSession(c, t)
    \/ \E c \in SeqClients : CloseActiveSessionLookup(c)
    \/ \E c \in SeqClients : CloseActiveSessionNow(c)
    \/ \E c \in SeqClients : CloseActiveSessionUpdate(c)
    \/ Tick

SpecSession == InitLoggedOut /\ [][NextSession]_vars

(* SpecLog: the two browsers post sets with every (weight, reps) pair at and
   around the limits of the form, their requests interleaved at the store
   connections *)
NextLog ==
    \/ \E c \in Clients, t \in TemplateIds, wn \in WorkoutNames, e \in LogExercises,
          wr \in WeightReps : LogSet(c, t, wn, e, wr[1], wr[2])
    \/ \E c \in Clients : EnsureActiveSessionLookup(c)
    \/ \E c \in Clients : EnsureActiveSessionInsert(c)
    \/ \E c \in Clients : InsertSetEntry(c)

SpecLog == InitLoggedIn /\ [][NextLog]_vars

(* SpecOwn: the two browsers, of one account or of one each, post sets and
   close sessions, their requests interleaved at the store connections *)
NextOwn ==
    \/ \E c \in Clients, t \in TemplateIds, wn \in WorkoutNames, e \in LogExercises,
          wr \in OwnWeightReps : LogSet(c, t, wn, e, wr[1], wr[2])
    \/ \E c \in Clients : EnsureActiveSessionLookup(c)
    \/ \E c \in Clients : EnsureActiveSessionInsert(c)
    \/ \E c \in Clients : InsertSetEntry(c)
    \/ \E c \in Clients, t \in TemplateIds : DoneSession(c, t)
    \/ \E c \in Clients : CloseActiveSessionLookup(c)
    \/ \E c \in Clients : CloseActiveSessionNow(c)
    \/ \E c \in Clients : CloseActiveSessionUpdate(c)

SpecOwn == InitLoggedIn /\ [][NextOwn]_vars

(* SpecHome: one browser requests the page, with and without identity, while
   the other one, of the same account or of the other, logs sets and closes
   sessions; the store connections of the page are interleaved with those of
   the requests of the other browser *)
NextHome ==
    \/ \E c \in PageClients, t \in HomeTemplates \cup TemplateIds, ed \in EditFlags :
          Home(c, t, ed)
    \/ \E c \in PageClients : HomeGetTemplates(c)
    \/ \E c \in PageClients : HomeGetTemplateById(c)
    \/ \E c \in PageClients : HomeGetExercisesForTemplate(c)
    \/ \E c \in PageClients : HomeFetchLastForExercises(c)
    \/ \E c \in PageClients : HomeFetchPrForExercises(c)
    \/ \E c \in PageClients : HomeToday(c)
    \/ \E c \in PageClients : HomeGetActiveSessionId(c)
    \/ \E c \in PageClients : HomeFetchSetsForSession(c)
    \/ \E c \in PageClients : Logout(c)
    \/ \E c \in OtherClients, t \in TemplateIds, wn \in WorkoutNames, e \in LogExercises,
          wr \in HomeWeightReps : LogSet(c, t, wn, e, wr[1], wr[2])
    \/ \E c \in OtherClients : EnsureActiveSessionLookup(c)
    \/ \E c \in OtherClients : EnsureActiveSessionInsert(c)
    \/ \E c \in OtherClients : InsertSetEntry(c)
    \/ \E c \in OtherClients, t \in TemplateIds : DoneSession(c, t)
    \/ \E c \in OtherClients : CloseActiveSessionLookup(c)
    \/ \E c \in OtherClients : CloseActiveSessionNow(c)
    \/ \E c \in OtherClients : CloseActiveSessionUpdate(c)

SpecHome == InitLoggedIn /\ [][NextHome]_vars

(* ----------------------- template editing ------------------------------ *)
(* SpecAdmin: one browser logs in to either account or to none and posts to
   the two admin-only template routes *)
NextAdmin ==
    \/ \E c \in SeqClients, e \in SeqEmails, p \in SeqPasswords : Login(c, e, p)
    \/ \E c \in SeqClients : SetIdentityAndClaim(c)
    \/ \E c \in SeqClients : Logout(c)
    \/ \E c \in SeqClients, t \in AdminTemplateIds, n \in RawExerciseNames :
          AddExercise(c, t, n)
    \/ \E c \in SeqClients : AddExerciseInsert(c)
    \/ \E c \in SeqClients, t \in AdminTemplateIds, x \in ExerciseIds :
          RemoveExercise(c, t, x)
    \/ \E c \in SeqClients : RemoveExerciseDelete(c)

SpecAdmin == InitLoggedOut /\ [][NextAdmin]_vars

(* SpecTpl: on a store without older rows two browsers of the admin add
   exercises to a template and remove any of them, down to the empty
   template; the requests of the one come in between the admin check and
   the write of the other *)
InitTpl ==
    /\ db = [users |-> StatUsers,
             exercises |-> seed_templates_if_empty.exercises,
             sqlite_sequence |-> seed_templates_if_empty.sqlite_sequence,
             template_exercises |-> seed_templates_if_empty.template_exercises,
             workout_sessions |-> <<>>,
             set_entries |-> <<>>]
    /\ cookie = [c \in Clients |-> 1]
    /\ req = [c \in Clients |-> Idle]
    /\ last = NoResp
    /\ today = 1

NextTpl ==
    \/ \E c \in Clients, t \in AdminTemplateIds, n \in RawExerciseNames :
          AddExercise(c, t, n)
    \/ \E c \in Clients : AddExerciseInsert(c)
    \/ \E c \in Clients, t \in AdminTemplateIds, x \in TplExerciseIds :
          RemoveExercise(c, t, x)
    \/ \E c \in Clients : RemoveExerciseDelete(c)

SpecTpl == InitTpl /\ [][NextTpl]_vars

(* SpecRef: the four routes that take a template id, with an id that exists
   and one that does not, requested by one browser *)
NextRef ==
    \/ \E c \in SeqClients, e \in SeqEmails, p \in SeqPasswords : Login(c, e, p)
    \/ \E c \in SeqClients : SetIdentityAndClaim(c)
    \/ \E c \in SeqClients, t \in TemplateIds, wn \in WorkoutNames, e \in LogExercises,
          wr \in SeqWeightReps : LogSet(c, t, wn, e, wr[1], wr[2])
    \/ \E c \in SeqClients : EnsureActiveSessionLookup(c)
    \/ \E c \in SeqClients : EnsureActiveSessionInsert(c)
    \/ \E c \in SeqClients : InsertSetEntry(c)
    \/ \E c \in SeqClients, t \in TemplateIds : DoneSession(c, t)
    \/ \E c \in SeqClients : CloseActiveSessionLookup(c)
    \/ \E c \in SeqClients : CloseActiveSessionNow(c)
    \/ \E c \in SeqClients : CloseActiveSessionUpdate(c)
    \/ \E c \in SeqClients, t \in AdminTemplateIds, n \in RawExerciseNames :
          AddExercise(c, t, n)
    \/ \E c \in SeqClients : AddExerciseInsert(c)
    \/ \E c \in SeqClients, t \in AdminTemplateIds, x \in ExerciseIds :
          RemoveExercise(c, t, x)
    \/ \E c \in SeqClients : RemoveExerciseDelete(c)

SpecRef == InitLoggedOut /\ [][NextRef]_vars

(* ----------------------- the stat aggregator --------------------------- *)
(* SpecStats: the two lookups on every store of up to MaxStatEntries set
   entries that two accounts, each logging into one session of its own, can
   have written; the page of the second account is then rendered *)
StatEntries ==
    {[user_id |-> u, session_id |-> u, day |-> 1, workout |-> "Pull",
      exercise |-> ewr[1], weight |-> ewr[2], reps |-> ewr[3]] :
        u \in {1, 2}, ewr \in StatSets}

StatSessions ==
    [u \in {1, 2} |-> [user_id |-> u, template_id |-> 2, day |-> 1,
                       workout_name |-> "Pull", ended_at |-> NULL]]

InitStats ==
    /\ db \in {[users |-> StatUsers,
                exercises |-> seed_templates_if_empty.exercises,
                sqlite_sequence |-> seed_templates_if_empty.sqlite_sequence,
                template_exercises |-> seed_templates_if_empty.template_exercises,
                workout_sessions |-> StatSessions,
                set_entries |-> se] : se \in SeqsUpTo(StatEntries, MaxStatEntries)}
    /\ cookie = [c \in Clients |-> 2]
    /\ req = [c \in Clients |-> Idle]
    /\ last = NoResp
    /\ today = 1

NextStats ==
    \/ \E c \in SeqClients, t \in HomeTemplates, ed \in EditFlags : Home(c, t, ed)
    \/ \E c \in SeqClients : HomeGetTemplates(c)
    \/ \E c \in SeqClients : HomeGetTemplateById(c)
    \/ \E c \in SeqClients : HomeGetExercisesForTemplate(c)
    \/ \E c \in SeqClients : HomeFetchLastForExercises(c)
    \/ \E c \in SeqClients : HomeFetchPrForExercises(c)
    \/ \E c \in SeqClients : HomeToday(c)
    \/ \E c \in SeqClients : HomeGetActiveSessionId(c)
    \/ \E c \in SeqClients : HomeFetchSetsForSession(c)

SpecStats == InitStats /\ [][NextStats]_vars

(* ------------------------------ properties ----------------------------- *)
Sessions == db.workout_sessions

Sets == db.set_entries

OpenRows(d, user_id, template_id, day) ==
    {i \in DOMAIN d.workout_sessions :
        /\ d.workout_sessions[i].user_id = user_id
        /\ d.workout_sessions[i].template_id = template_id
        /\ d.workout_sessions[i].day = day
        /\ d.workout_sessions[i].ended_at = NULL}

(* weight < 0, weight > 2000, reps < 1 or reps > 200 *)
OutOfRange(weight, reps) ==
    Less(weight, 0) \/ Less(2000, weight) \/ reps < 1 \/ reps > 200

(* 0 <= weight <= 2000 and 1 <= reps <= 200 *)
InRange(weight, reps) ==
    weight # NaN /\ 0 <= weight /\ weight <= 2000 /\ 1 <= reps /\ reps <= 200

(* C1: in every reachable state, also with the requests of one user
   interleaved at their store reads and writes, no two workout_sessions rows
   of the same (user_id, template_id, day) both have ended_at = NULL *)
C1_AtMostOneOpenSession ==
    \A i, j \in DOMAIN Sessions :
        (/\ i < j
         /\ Sessions[i].user_id = Sessions[j].user_id
         /\ Sessions[i].template_id = Sessions[j].template_id
         /\ Sessions[i].day = Sessions[j].day)
            => (Sessions[i].ended_at # NULL \/ Sessions[j].ended_at # NULL)

(* C2: with requests run one after another, every ensure_active_session call
   (made by a POST /log that passed the limits) leaves exactly one open row
   for its key and returns the id of that row: when a row is open for the
   key, as after an earlier call with no close in between, the lookup finds
   exactly that row and the call returns it without a write; when none is
   open the call inserts one row, which is then the only open row of the key,
   and returns its id *)
C2_EnsureReturnsTheOneOpenSession ==
    [][\A c \in SeqClients :
        /\ (req[c].pc = "ensure_lookup" /\ EnsureActiveSessionLookup(c))
                => LET before == OpenRows(db, req[c].uid, req[c].template_id, req[c].day)
                   IN /\ db' = db
                      /\ IF before = {}
                         THEN req'[c].pc = "insert_session"
                         ELSE /\ Cardinality(before) = 1
                              /\ req'[c].pc = "insert_set"
                              /\ req'[c].session_id \in before
        /\ (/\ req[c].pc = "insert_session"
            /\ req[c].template_id \in DOMAIN workout_templates
            /\ EnsureActiveSessionInsert(c))
                => LET after == OpenRows(db', req[c].uid, req[c].template_id, req[c].day)
                   IN /\ Cardinality(after) = 1
                      /\ req'[c].pc = "insert_set"
                      /\ req'[c].session_id \in after
                      /\ Len(db'.workout_sessions) = Len(Sessions) + 1]_vars

(* a second accepted POST /log found the session the first one opened *)
C2_Witness ==
    /\ last.op = "log"
    /\ last.line = 550
    /\ \E i, j \in DOMAIN Sets :
        /\ i < j
        /\ Sets[i].session_id = last.ret
        /\ Sets[j].session_id = last.ret
        /\ Sets[i].user_id = Sets[j].user_id
        /\ Sessions[last.ret].ended_at = NULL

(* C3: a session whose ended_at is set has it set in every later state, and
   an ensure_active_session call never returns a closed session: called
   after the close of the key's session it finds no open row, inserts a new
   row, which is open, and returns the id of the new row *)
C3_ClosedSessionIsNeverReopened ==
    [][/\ Len(db'.workout_sessions) >= Len(Sessions)
       /\ \A i \in DOMAIN Sessions :
            Sessions[i].ended_at # NULL => db'.workout_sessions[i].ended_at # NULL
       /\ \A c \in SeqClients :
            /\ (req[c].pc = "ensure_lookup" /\ EnsureActiveSessionLookup(c))
                    => IF OpenRows(db, req[c].uid, req[c].template_id, req[c].day) = {}
                       THEN req'[c].pc = "insert_session"
                       ELSE /\ req'[c].session_id \in DOMAIN Sessions
                            /\ Sessions[req'[c].session_id].ended_at = NULL
            /\ (/\ req[c].pc = "insert_session"
                /\ req[c].template_id \in DOMAIN workout_templates
                /\ EnsureActiveSessionInsert(c))
                    => /\ req'[c].session_id = Len(Sessions) + 1
                       /\ Len(db'.workout_sessions) = Len(Sessions) + 1
                       /\ db'.workout_sessions[req'[c].session_id].ended_at = NULL
                       /\ \A i \in DOMAIN Sessions : db'.workout_sessions[i] = Sessions[i]]_vars

(* a session was closed and the next POST /log of the same key got a new one *)
C3_Witness ==
    /\ last.op = "log"
    /\ last.line = 550
    /\ \E s \in DOMAIN Sessions :
        /\ s < last.ret
        /\ Sessions[s].ended_at # NULL
        /\ Sessions[s].user_id = Sessions[last.ret].user_id
        /\ Sessions[s].template_id = Sessions[last.ret].template_id
        /\ Sessions[s].day = Sessions[last.ret].day
        /\ Sessions[last.ret].ended_at = NULL

(* C4: close_active_session for a key without an open session returns none
   and leaves every table unchanged: the POST /session/done is over after
   its lookup *)
C4_CloseWithoutOpenSessionIsNoOp ==
    [][\A c \in SeqClients :
            (/\ req[c].pc = "close_lookup"
             /\ OpenRows(db, req[c].uid, req[c].template_id, req[c].day) = {}
             /\ CloseActiveSessionLookup(c))
                => /\ db' = db
                   /\ req'[c].pc = "idle"
                   /\ last'.op = "done"
                   /\ last'.ret = NULL]_vars

(* POST /session/done answered without a session to close, although the
   user has a session of that template: a closed one or one of another day *)
C4_Witness ==
    /\ last.op = "done"
    /\ last.status = 303
    /\ last.ret = NULL
    /\ \E c \in SeqClients, i \in DOMAIN Sessions :
        /\ cookie[c] # NULL
        /\ Sessions[i].user_id = cookie[c]
        /\ OpenRows(db, cookie[c], Sessions[i].template_id, today) = {}

EntriesOf(user_id, exercise) ==
    {i \in DOMAIN Sets : Sets[i].user_id = user_id /\ Sets[i].exercise = exercise}

(* the entry that is greatest in the order (weight, then reps, then id) *)
LexGreatest(S) ==
    CHOOSE i \in S : \A j \in S :
        \/ j = i
        \/ Sets[j].weight < Sets[i].weight
        \/ Sets[j].weight = Sets[i].weight /\ Sets[j].reps < Sets[i].reps
        \/ Sets[j].weight = Sets[i].weight /\ Sets[j].reps = Sets[i].reps /\ j < i

Shown(i) ==
    [exercise |-> Sets[i].exercise, weight |-> Sets[i].weight,
     reps |-> Sets[i].reps, day |-> Sets[i].day]

(* C5: for every user and every set of exercise names the PR lookup yields,
   for each requested exercise the user has an entry of, exactly one row:
   the user's entry of that exercise greatest in (weight, reps, id) *)
C5_PrIsLexicographicMaximum ==
    \A u \in DOMAIN db.users, names \in SUBSET StatNames :
        LET rows == fetch_pr_rows(db, u, names)
            pr == fetch_pr_for_exercises(db, u, names)
        IN \A e \in names :
            EntriesOf(u, e) # {}
                => /\ {i \in rows : Sets[i].exercise = e} = {LexGreatest(EntriesOf(u, e))}
                   /\ e \in DOMAIN pr
                   /\ pr[e] = Shown(LexGreatest(EntriesOf(u, e)))

(* the page of a user who logged 100x5, 100x8 and 90x10 for Row shows 100x8 *)
C5_Witness ==
    /\ last.op = "home"
    /\ last.status = 200
    /\ \E u \in DOMAIN db.users :
        /\ Cardinality(EntriesOf(u, "Row")) = 3
        /\ {<<Sets[i].weight, Sets[i].reps>> : i \in EntriesOf(u, "Row")}
                = {<<100, 5>>, <<100, 8>>, <<90, 10>>}
        /\ "Row" \in DOMAIN last.body.pr
        /\ last.body.pr["Row"].weight = 100
        /\ last.body.pr["Row"].reps = 8
        /\ last.body.pr = fetch_pr_for_exercises(db, u, get_exercises_for_template(db, 2))

(* C6: for every user and every set of exercise names the last-set lookup
   maps each requested exercise the user has an entry of to the user's entry
   with the greatest id, and has no key for any other exercise *)
C6_LastIsHighestId ==
    \A u \in DOMAIN db.users, names \in SUBSET StatNames :
        LET lastsets == fetch_last_for_exercises(db, u, names)
        IN /\ \A e \in names :
                EntriesOf(u, e) # {}
                    => /\ e \in DOMAIN lastsets
                       /\ lastsets[e] = Shown(Max(EntriesOf(u, e)))
           /\ \A e \in DOMAIN lastsets : e \in names /\ EntriesOf(u, e) # {}

(* the page shows a last set that is lighter than the PR, and no last set
   for an exercise of the template that was never logged *)
C6_Witness ==
    /\ last.op = "home"
    /\ last.status = 200
    /\ "Row" \in DOMAIN last.body.last
    /\ "Row" \in DOMAIN last.body.pr
    /\ last.body.last["Row"].weight < last.body.pr["Row"].weight
    /\ "Face Pull" \notin DOMAIN last.body.last
    /\ \E i \in DOMAIN Sets : Sets[i].exercise = "Row" /\ Sets[i].user_id = 2

(* C7: a POST /log of a logged-in user with weight < 0, weight > 2000,
   reps < 1 or reps > 200 is over at once and leaves the store unchanged;
   with 0 <= weight <= 2000, 1 <= reps <= 200 and an existing template it
   goes on, its ensure_active_session does not fail, and its INSERT appends
   exactly one set_entries row, the one posted, after which it is over.
   (The third conjunct of the first premise follows from LogSet; it only
   spares evaluating LogSet on the steps of other requests.) *)
C7_LogValidatesWeightAndReps ==
    [][\A c \in Clients :
        /\ \A t \in TemplateIds, wn \in WorkoutNames, e \in LogExercises, wr \in WeightReps :
            (/\ req[c].pc = "idle"
             /\ cookie[c] # NULL
             /\ IF req'[c].pc = "idle" THEN last'.line = 536
                ELSE <<req'[c].template_id, req'[c].weight, req'[c].reps>> = <<t, wr[1], wr[2]>>
             /\ LogSet(c, t, wn, e, wr[1], wr[2]))
                => /\ db' = db
                   /\ OutOfRange(wr[1], wr[2])
                        => /\ req'[c].pc = "idle"
                           /\ last'.op = "log"
                           /\ last'.line = 536
                   /\ InRange(wr[1], wr[2])
                        => /\ req'[c].pc = "ensure_lookup"
                           /\ req'[c].weight = wr[1]
                           /\ req'[c].reps = wr[2]
                           /\ req'[c].exercise = e
                           /\ req'[c].uid = cookie[c]
        /\ (/\ req[c].pc = "ensure_lookup"
            /\ InRange(req[c].weight, req[c].reps)
            /\ EnsureActiveSessionLookup(c))
                => /\ db' = db
                   /\ req'[c].pc \in {"insert_session", "insert_set"}
                   /\ [req'[c] EXCEPT !.pc = "ensure_lookup", !.session_id = NULL] = req[c]
        /\ (/\ req[c].pc = "insert_session"
            /\ InRange(req[c].weight, req[c].reps)
            /\ req[c].template_id \in DOMAIN workout_templates
            /\ EnsureActiveSessionInsert(c))
                => /\ db'.set_entries = Sets
                   /\ req'[c] = [req[c] EXCEPT !.pc = "insert_set",
                                               !.session_id = Len(Sessions) + 1]
        /\ (/\ req[c].pc = "insert_set"
            /\ InRange(req[c].weight, req[c].reps)
            /\ InsertSetEntry(c))
                => /\ Len(db'.set_entries) = Len(Sets) + 1
                   /\ \A i \in DOMAIN Sets : db'.set_entries[i] = Sets[i]
                   /\ db'.workout_sessions = Sessions
                   /\ req'[c].pc = "idle"
                   /\ last'.line = 550
                   /\ LET row == db'.set_entries[Len(Sets) + 1]
                      IN /\ row.user_id = req[c].uid
                         /\ row.exercise = req[c].exercise
                         /\ row.weight = req[c].weight
                         /\ row.reps = req[c].reps]_vars

(* an out-of-range POST /log was answered after an in-range one was stored *)
C7_Witness ==
    /\ last.op = "log"
    /\ last.line = 536
    /\ \E i \in DOMAIN Sets : Sets[i].session_id # NULL /\ Sets[i].weight = 2000

(* C8: with registrations run one after another the first user row has
   is_admin = 1 and every later one has is_admin = 0 *)
C8_OnlyFirstUserIsAdmin ==
    \A i \in DOMAIN db.users : db.users[i].is_admin = (IF i = 1 THEN 1 ELSE 0)

C8_Witness ==
    /\ Len(db.users) = 2
    /\ last.op = "register"
    /\ last.line = 452

(* C9: a successful login or registration leaves no row without an owner:
   every row whose user_id was NULL now belongs to the account that logged in
   or registered; and no step of any request ever changes a user_id that is
   not NULL *)
C9_LegacyRowsClaimedOnce ==
    [][/\ \A i \in DOMAIN Sets :
            Sets[i].user_id # NULL => db'.set_entries[i].user_id = Sets[i].user_id
       /\ \A i \in DOMAIN Sessions :
            Sessions[i].user_id # NULL
                => db'.workout_sessions[i].user_id = Sessions[i].user_id
       /\ \A c \in Clients :
            (req[c].pc = "claim" /\ SetIdentityAndClaim(c))
                => /\ last'.line \in {431, 452}
                   /\ cookie'[c] = req[c].uid
                   /\ cookie'[c] \in DOMAIN db.users
                   /\ \A i \in DOMAIN Sets :
                        Sets[i].user_id = NULL => db'.set_entries[i].user_id = cookie'[c]
                   /\ \A i \in DOMAIN Sessions :
                        Sessions[i].user_id = NULL
                            => db'.workout_sessions[i].user_id = cookie'[c]]_vars

(* the legacy rows belong to the first account and the second account has
   logged in since *)
C9_Witness ==
    /\ Len(db.users) = 2
    /\ \E c \in Clients : cookie[c] = 2
    /\ last.line \in {431, 452}
    /\ \E i \in DOMAIN Sets : Sets[i].session_id = NULL /\ Sets[i].user_id = 1
    /\ \E i \in DOMAIN Sessions : Sessions[i].user_id = 1

TemplateTablesUnchanged ==
    /\ db'.exercises = db.exercises
    /\ db'.template_exercises = db.template_exercises

AdminGate(c) ==
    /\ cookie[c] = NULL => (last'.status = 401 /\ TemplateTablesUnchanged)
    /\ (cookie[c] # NULL /\ db.users[cookie[c]].is_admin # 1)
            => (last'.status = 403 /\ TemplateTablesUnchanged)

(* C10: POST /template/add_exercise and /template/remove_exercise answer 401
   without an identity and 403 for a user without the admin flag, and leave
   exercises and template_exercises unchanged in both cases *)
C10_TemplateRoutesAreAdminOnly ==
    [][\A c \in SeqClients, t \in AdminTemplateIds :
          /\ req[c].pc = "idle"
                => /\ \A n \in RawExerciseNames : AddExercise(c, t, n) => AdminGate(c)
                   /\ \A x \in ExerciseIds : RemoveExercise(c, t, x) => AdminGate(c)
          /\ (req[c].pc \in {"add_exercise_insert", "remove_exercise_delete"}
                /\ (AddExerciseInsert(c) \/ RemoveExerciseDelete(c)))
                => db.users[req[c].uid].is_admin = 1]_vars

(* the second, non-admin user was refused *)
C10_Witness ==
    /\ last.op \in {"add_exercise", "remove_exercise"}
    /\ last.status = 403
    /\ \E c \in SeqClients : cookie[c] = 2

UniqueEmails(d) ==
    \A i, j \in DOMAIN d.users : i # j => d.users[i].email # d.users[j].email

(* C11: a POST /register whose password has fewer than 6 characters, or whose
   trimmed and lower-cased email is the email of an existing user, is answered
   with a redirect at once and leaves the store (so the users rows and the
   owners of the legacy rows) and every cookie unchanged; and no step, of
   interleaved requests either, leaves two users with the same email *)
C11_RejectedRegistrationChangesNothing ==
    [][/\ \A c \in Clients, e \in RawEmails, p \in Passwords :
            (/\ \/ Len(p) < 6
                \/ \E i \in DOMAIN db.users : db.users[i].email = NormEmail(e)
             /\ Register(c, e, p))
                => /\ db' = db
                   /\ cookie' = cookie
                   /\ req'[c].pc = "idle"
                   /\ last'.op = "register"
                   /\ last'.line \in {444, 447}
       /\ UniqueEmails(db')]_vars

(* a browser without identity was refused the email of the one account
   there is *)
C11_Witness ==
    /\ last.op = "register"
    /\ last.line = 447
    /\ Len(db.users) = 1
    /\ \E c \in Clients : cookie[c] = NULL
    /\ \A c \in Clients : req[c].pc = "idle"

(* C12 as claimed: every step leaves every existing set_entries row exactly
   as it was *)
C12_SetEntriesNeverChange ==
    [][\A i \in DOMAIN Sets :
            i \in DOMAIN db'.set_entries /\ db'.set_entries[i] = Sets[i]]_vars

(* C12, amended: no step deletes a set_entries row, and no step changes a
   field of one, except that a successful login or registration sets the
   user_id of the rows that have none to the id of that account *)
C12_SetEntriesChangeOnlyWhenClaimed ==
    [][\A i \in DOMAIN Sets :
            /\ i \in DOMAIN db'.set_entries
            /\ \/ db'.set_entries[i] = Sets[i]
               \/ /\ Sets[i].user_id = NULL
                  /\ last'.line \in {431, 452}
                  /\ \E c \in Clients :
                        /\ req[c].pc = "claim"
                        /\ cookie'[c] \in DOMAIN db'.users
                        /\ db'.set_entries[i] = [Sets[i] EXCEPT !.user_id = cookie'[c]]]_vars

(* a row written before accounts existed, with its session, now belongs to
   the first account, and a set has been logged after it *)
C12_Witness ==
    /\ last.op = "log"
    /\ last.line = 550
    /\ \E i, j \in DOMAIN Sets :
        /\ i < j
        /\ Sets[i].day = 1
        /\ Sets[i].session_id = 1
        /\ Sessions[1].workout_name = "Pull"
        /\ Sets[i].user_id = 1
        /\ Sets[j].session_id # NULL

(* the step wrote nothing, and a response it gave is no error *)
Tolerated(c) == db' = db /\ (req'[c].pc = "idle" => last'.status < 400)

(* C13: a POST /log or POST /session/done of a logged-in user, and a POST
   /template/add_exercise or /template/remove_exercise of an admin, that
   names a template id not in workout_templates is answered without an error
   status and leaves the store unchanged, at each of its steps *)
C13_UnknownTemplateIsTolerated ==
    [][\A c \in SeqClients :
        /\ (/\ req[c].op \in {"log", "done", "add_exercise", "remove_exercise"}
            /\ req[c].template_id \notin DOMAIN workout_templates
            /\ \/ EnsureActiveSessionLookup(c)
               \/ EnsureActiveSessionInsert(c)
               \/ InsertSetEntry(c)
               \/ CloseActiveSessionLookup(c)
               \/ CloseActiveSessionNow(c)
               \/ CloseActiveSessionUpdate(c)
               \/ AddExerciseInsert(c)
               \/ RemoveExerciseDelete(c)) => Tolerated(c)
        /\ \A t \in (TemplateIds \cup AdminTemplateIds) \ DOMAIN workout_templates :
            (req[c].pc = "idle" /\ cookie[c] # NULL)
                => /\ \A wn \in WorkoutNames, e \in LogExercises, wr \in SeqWeightReps :
                        LogSet(c, t, wn, e, wr[1], wr[2]) => Tolerated(c)
                   /\ DoneSession(c, t) => Tolerated(c)
                   /\ require_admin(db, cookie[c]) = 0
                        => /\ \A n \in RawExerciseNames : AddExercise(c, t, n) => Tolerated(c)
                           /\ \A x \in ExerciseIds :
                                RemoveExercise(c, t, x) => Tolerated(c)]_vars

AssociationsOf(d, template_id) ==
    {te \in d.template_exercises : te.template_id = template_id}

DistinctOrder(d) ==
    \A a, b \in d.template_exercises :
        (a # b /\ a.template_id = b.template_id) => a.order_index # b.order_index

(* C14: an admin's add_exercise on an existing template with a name (after
   trimming, not empty) that the template does not have adds exactly one
   association, for the exercise of that name, whose order_index is 1 + the
   greatest order_index of the template, or 0 when the template has none;
   with a name the template has it changes nothing; and after every step the
   order_index values within one template are pairwise distinct *)
C14_AddExerciseAppendsAtNextIndex ==
    [][/\ \A c \in Clients :
            (/\ req[c].pc = "add_exercise_insert"
             /\ req[c].template_id \in DOMAIN workout_templates
             /\ AddExerciseInsert(c))
                => LET t == req[c].template_id
                       name == req[c].exercise
                       mine == AssociationsOf(db, t)
                       idx == IF mine = {} THEN 0
                              ELSE 1 + Max({te.order_index : te \in mine})
                   IN IF name \in get_exercises_for_template(db, t)
                      THEN [db' EXCEPT !.sqlite_sequence = db.sqlite_sequence] = db
                      ELSE \E x \in {e.id : e \in {y \in db'.exercises : y.name = name}} :
                            /\ [template_id |-> t, exercise_id |-> x, order_index |-> idx]
                                    \notin db.template_exercises
                            /\ db'.template_exercises = db.template_exercises \cup
                                  {[template_id |-> t, exercise_id |-> x, order_index |-> idx]}
       /\ DistinctOrder(db')]_vars

(* the template was emptied and the new exercise then added at index 0 *)
C14_Witness ==
    /\ last.op = "add_exercise"
    /\ last.line = 578
    /\ AssociationsOf(db, 2) = {[template_id |-> 2, exercise_id |-> 14, order_index |-> 0]}

(* C15: a POST /session/done of a logged-in user that nothing interfered
   with leaves no open row of its key: get_active_session_id for the key
   returns none once it is over.  The close is over after its lookup when
   the lookup finds no row; otherwise it is over with its UPDATE.  Nothing
   has interfered when, at the UPDATE, no other request is in progress and
   the lookup of the close, repeated on the store as it is now and on this
   day, gives the row it gave: the UPDATE then ends in the state that the
   close run in one piece from here ends in *)
C15_NoOpenSessionAfterClose ==
    [][\A c \in Clients :
        /\ (/\ req[c].pc = "close_lookup"
            /\ CloseActiveSessionLookup(c)
            /\ req'[c].pc = "idle")
                => get_active_session_id(db', req[c].uid, req[c].template_id, req[c].day)
                        = NULL
        /\ (/\ req[c].pc = "close_update"
            /\ \A o \in Clients \ {c} : req[o].pc = "idle"
            /\ req[c].day = today
            /\ req[c].now = today
            /\ get_active_session_id(db, req[c].uid, req[c].template_id, req[c].day)
                    = req[c].session_id
            /\ CloseActiveSessionUpdate(c))
                => /\ get_active_session_id(db', req[c].uid, req[c].template_id,
                                            req[c].day) = NULL
                   /\ OpenRows(db', req[c].uid, req[c].template_id, req[c].day) = {}]_vars

(* C16: the row a POST /log inserts into set_entries carries the id of the
   requesting user and the id of a workout_sessions row that, when the entry
   is inserted, belongs to the same user, template and day and has
   ended_at = NULL; also with a POST /session/done of the other browser of
   the user between the request's ensure_active_session and its INSERT *)
C16_SetGoesIntoOpenSessionOfItsKey ==
    [][\A c \in Clients :
            (req[c].pc = "insert_set" /\ req[c].weight # NaN /\ InsertSetEntry(c))
                => LET row == db'.set_entries[Len(db'.set_entries)]
                   IN /\ Len(db'.set_entries) = Len(Sets) + 1
                      /\ row.user_id = cookie[c]
                      /\ row.session_id \in DOMAIN Sessions
                      /\ Sessions[row.session_id].user_id = cookie[c]
                      /\ Sessions[row.session_id].template_id = req[c].template_id
                      /\ Sessions[row.session_id].day = req[c].day
                      /\ Sessions[row.session_id].ended_at = NULL]_vars

(* C17: in every reachable state, also with two registrations of different
   emails interleaved between the count of create_user and its INSERT, at
   most one users row has is_admin = 1 *)
C17_AtMostOneAdmin ==
    Cardinality({i \in DOMAIN db.users : db.users[i].is_admin = 1}) <= 1

SessionsOwnedBy(d, user_id) ==
    {i \in DOMAIN d.workout_sessions : d.workout_sessions[i].user_id = user_id}

(* what user b sees and owns is the same in the stores d and d2 *)
SameFor(b, d, d2) ==
    /\ \A names \in SUBSET LogExercises :
        /\ fetch_last_for_exercises(d2, b, names) = fetch_last_for_exercises(d, b, names)
        /\ fetch_pr_for_exercises(d2, b, names) = fetch_pr_for_exercises(d, b, names)
    /\ \A t \in TemplateIds, day \in 1..MaxDay :
        get_active_session_id(d2, b, t, day) = get_active_session_id(d, b, t, day)
    /\ SessionsOwnedBy(d2, b) = SessionsOwnedBy(d, b)
    /\ \A i \in SessionsOwnedBy(d, b) : d2.workout_sessions[i] = d.workout_sessions[i]
    /\ \A s \in SessionsOwnedBy(d, b) :
        {i \in DOMAIN d2.set_entries : d2.set_entries[i].session_id = s}
            = {i \in DOMAIN d.set_entries : d.set_entries[i].session_id = s}

(* C18: every step of a POST /log or POST /session/done made by user A
   leaves, for every other user B, the results of B's last-set lookup, PR
   lookup and get_active_session_id as they were, and neither closes nor adds
   a row to nor adds an entry to a session owned by B; also with the requests
   of B in flight.  Of these steps only the ones that write are looked at: a
   step that leaves the store as it is changes no lookup *)
C18_OtherUsersAreUnaffected ==
    [][\A c \in Clients, b \in DOMAIN db.users :
            (/\ b # (IF req[c].pc = "idle" THEN cookie[c] ELSE req[c].uid)
             /\ db' # db
             /\ \/ \E t \in TemplateIds, wn \in WorkoutNames, e \in LogExercises,
                      wr \in OwnWeightReps : LogSet(c, t, wn, e, wr[1], wr[2])
                \/ EnsureActiveSessionLookup(c)
                \/ EnsureActiveSessionInsert(c)
                \/ InsertSetEntry(c)
                \/ \E t \in TemplateIds : DoneSession(c, t)
                \/ CloseActiveSessionLookup(c)
                \/ CloseActiveSessionNow(c)
                \/ CloseActiveSessionUpdate(c))
                => SameFor(b, db, db')]_vars

(* a user logged a set while another user had an entry in an open session
   of the same template and day *)
C18_Witness ==
    /\ last.op = "log"
    /\ last.line = 550
    /\ \E i \in DOMAIN Sets :
        /\ i < Len(Sets)
        /\ Sets[i].user_id \notin {NULL, Sets[Len(Sets)].user_id}
        /\ Sets[i].session_id \in DOMAIN Sessions
        /\ Sessions[Sets[i].session_id].ended_at = NULL
        /\ Sessions[Sets[i].session_id].user_id = Sets[i].user_id
        /\ Sessions[Sets[i].session_id].day = Sessions[last.ret].day
        /\ Sessions[Sets[i].session_id].template_id = Sessions[last.ret].template_id
        /\ Sessions[last.ret].user_id = Sets[Len(Sets)].user_id

(* the users whose email is the trimmed, lower-cased form input and whose
   stored hash is the hash of the form's password *)
ValidFor(d, email_raw, password) ==
    {i \in DOMAIN d.users :
        /\ d.users[i].email = NormEmail(email_raw)
        /\ d.users[i].password_hash
                = hash_password(password, d.users[i].password_hash.salt)}

(* C19: a POST /login with an unknown email or a wrong password is answered
   with the redirect to the login page and leaves the store, the legacy rows
   included, and every cookie unchanged; a POST /login goes on to set an
   identity only with valid credentials, and the identity it then sets is
   the id of the user with these credentials *)
C19_FailedLoginChangesNothing ==
    [][\A c \in Clients :
        /\ \A e \in RawEmails, p \in Passwords :
            Login(c, e, p)
                => /\ db' = db
                   /\ cookie' = cookie
                   /\ IF ValidFor(db, e, p) = {}
                      THEN req'[c].pc = "idle" /\ last'.op = "login" /\ last'.line = 427
                      ELSE req'[c].pc = "claim" /\ req'[c].uid \in ValidFor(db, e, p)
        /\ (req[c].op = "login" /\ SetIdentityAndClaim(c))
                => cookie'[c] = req[c].uid /\ last'.line = 431]_vars

(* a login was refused while the one account there is had not yet claimed
   the rows without owner *)
C19_Witness ==
    /\ last.op = "login"
    /\ last.line = 427
    /\ Len(db.users) = 1
    /\ \E c \in Clients : cookie[c] = NULL /\ req[c].pc = "idle"
    /\ \E i \in DOMAIN Sets : Sets[i].user_id = NULL

(* C20: a GET /, with or without identity and with any t and edit, leaves
   every table of the store unchanged at each of its store connections, also
   with the requests of the other browser in between *)
C20_HomeIsReadOnly ==
    [][\A c \in PageClients :
            (\/ \E t \in HomeTemplates \cup TemplateIds, ed \in EditFlags : Home(c, t, ed)
             \/ HomeGetTemplates(c)
             \/ HomeGetTemplateById(c)
             \/ HomeGetExercisesForTemplate(c)
             \/ HomeFetchLastForExercises(c)
             \/ HomeFetchPrForExercises(c)
             \/ HomeToday(c)
             \/ HomeGetActiveSessionId(c)
             \/ HomeFetchSetsForSession(c))
                => db' = db]_vars

(* the page of the Pull template was rendered while the other browser logged
   a set of Row: the page shows a PR and an open session with that set, and
   no last set, and has opened or closed no session itself *)
C20_Witness ==
    /\ last.op = "home"
    /\ last.status = 200
    /\ last.ret \in DOMAIN Sessions
    /\ Sessions[last.ret].ended_at = NULL
    /\ last.body.selected_template = "Pull"
    /\ "Row" \notin DOMAIN last.body.last
    /\ "Row" \in DOMAIN last.body.pr
    /\ last.body.session_sets # {}

====
